---- MODULE Spec2Model ----
(***************************************************************************)
(* A model of the ksqldb Go client: Client.Do with its per-request         *)
(* cancellation scopes (client.go) and the streaming response engine of    *)
(* Response (response.go): the lazily started reader goroutine, the two    *)
(* unbuffered channels, ReadStreaming, ReadAll and Cancel.                 *)
(*                                                                         *)
(* Byte slices are sequences of byte values (10 is "\n", 13 is "\r",       *)
(* 0 is NUL).  A nil slice and an empty slice are both <<>>: the code only *)
(* ever asks for their length.                                             *)
(***************************************************************************)
EXTENDS Integers, Sequences, FiniteSets, TLC

\* ------------------------------------------------------------- bounds

\* longest response body the server sends, in bytes
MaxBodyLen == 3
\* longest response body in the runs with several concurrent callers
MaxBodyLenConcurrent == 1
\* goroutines calling Read / ReadStreaming / ReadAll on the handle
NumCallers == 2
\* exchanges (calls of Client.Do) of one client
NumHandles == 2
\* calls of Response.Cancel by the handle's owner, per handle
MaxCancels == 2
\* receives of one ReadStreaming call from the closed data channel that its
\* handler log records
MaxClosedRecv == 1

\* ------------------------------------------------- program constants

\* bytes.MinRead, the length newBuffer gives its initial slice
MinRead == 512

\* the Response whose body is streamed (the receiver rr of response.go)
RR == 1

Handles == 1..NumHandles
Callers == 1..NumCallers

\* the bytes a body is made of: "\n", "a", "b"
Alphabet == {10, 97, 98}

SeqsUpTo(S, n) == UNION {[1..k -> S] : k \in 0..n}

\* how the read of the body ends: io.EOF, or a read error
BodyErrs == {"EOF", "DeadlineExceeded", "ErrUnexpected"}

VARIABLES
    rootErr,      \* cc.ctx.Err(): "nil", "Canceled" or "DeadlineExceeded"
    rootCause,    \* ghost: who ended the root scope ("nil", "owner", "child")
    ctxDone,      \* ctxDone[h]: the scope derived by the h-th Do is canceled
    resp,         \* resp[h]: what the h-th Do returned
    doing,        \* doing[h]: where the h-th Do is, and what it holds locally
    ret,          \* ret[h]: the *Response and the error the h-th Do returned
    events,       \* events[h]: the steps the h-th Do performed, in order
    hooks,        \* the hooks registered in the client's ClientTrace
    cancelCalls,  \* ghost: calls of Cancel on handle h by its owner
    body,         \* the bytes of rr.Response.Body
    bodyErr,      \* the error that ends the read of the body
    once,         \* rr.once has run
    dataCh,       \* rr.dataCh: 0 is nil, k the k-th channel pair made
    errCh,        \* rr.errCh
    readers,      \* ghost: reader goroutines started
    dataClosed,   \* close(dataCh) happened
    errClosed,    \* close(errCh) happened
    sc,           \* the bufio.Scanner over the body
    rpc,          \* where the reader goroutine is
    rerr,         \* the terminal condition the reader sends on errCh
    scanned,      \* ghost: the tokens Scan returned, in order
    published,    \* ghost: the records the reader put on dataCh, in order
    cs            \* cs[c]: the state of caller c's call

clientVars ==
    <<rootErr, rootCause, ctxDone, doing, resp, ret, events, hooks, cancelCalls>>
bodyVars == <<body, bodyErr>>
chanVars == <<once, dataCh, errCh, readers, dataClosed, errClosed>>
readerVars == <<sc, rpc, rerr, scanned, published>>
vars == <<clientVars, bodyVars, chanVars, readerVars, cs>>

\* ------------------------------------------------------ byte slices

\* var apiDataDelimiter = []byte("\n")
apiDataDelimiter == <<10>>

Zeros(n) == [i \in 1..n |-> 0]

\* bytes.NewBuffer(make([]byte, bytes.MinRead)): the slice is the buffer's
\* initial CONTENTS, MinRead zero bytes
newBuffer == Zeros(MinRead)

\* buf.Write(byt)
writeToBuffer(byt, buf) == buf \o byt

\* the condition of filterSendDataChannel
Meaningful(byt) == Len(byt) # 0 /\ byt # apiDataDelimiter

RECURSIVE Concat(_)
Concat(ss) == IF ss = <<>> THEN <<>> ELSE Head(ss) \o Concat(Tail(ss))

\* --------------------------------------------------- bufio.Scanner

\* bytes.IndexByte: 0-based index of the first b, -1 if none
IndexByte(data, b) ==
    IF \E i \in 1..Len(data) : data[i] = b
    THEN (CHOOSE i \in 1..Len(data) :
              data[i] = b /\ \A j \in 1..(i - 1) : data[j] # b) - 1
    ELSE -1

dropCR(data) ==
    IF Len(data) > 0 /\ data[Len(data)] = 13
    THEN SubSeq(data, 1, Len(data) - 1)
    ELSE data

\* bufio.ScanLines, the scanner's default split function
ScanLines(data, atEOF) ==
    IF atEOF /\ Len(data) = 0
    THEN [advance |-> 0, token |-> <<>>, isNil |-> TRUE]
    ELSE IF IndexByte(data, 10) >= 0
    THEN [advance |-> IndexByte(data, 10) + 1,
          token |-> dropCR(SubSeq(data, 1, IndexByte(data, 10))),
          isNil |-> FALSE]
    ELSE IF atEOF
    THEN [advance |-> Len(data), token |-> dropCR(data), isNil |-> FALSE]
    ELSE [advance |-> 0, token |-> <<>>, isNil |-> TRUE]

\* bufio.NewScanner(rr.Response.Body): start and end are s.start and s.end
\* counted from the beginning of the body, err is s.err
NewScanner == [start |-> 0, end |-> 0, token |-> <<>>, err |-> "nil"]

\* scanner.Scan(): the loop of bufio.Scanner.Scan over the body.  A Read
\* returns what is left of the body, and then the body's final error.
RECURSIVE Scan(_)
Scan(s) ==
    LET split == ScanLines(SubSeq(body, s.start + 1, s.end), s.err # "nil")
        try == s.end > s.start \/ s.err # "nil"
        s1 == IF try
              THEN [s EXCEPT !.start = s.start + split.advance,
                             !.token = split.token]
              ELSE s
    IN  IF try /\ ~split.isNil
        THEN [ok |-> TRUE, s |-> s1]
        ELSE IF s1.err # "nil"
        THEN [ok |-> FALSE, s |-> s1]
        ELSE IF s1.end < Len(body)
        THEN Scan([s1 EXCEPT !.end = Len(body)])
        ELSE Scan([s1 EXCEPT !.err = bodyErr])

\* scanner.Err()
ScannerErr(s) == IF s.err = "EOF" THEN "nil" ELSE s.err

\* ------------------------------------------------------------ scopes

\* <-ctx.Done() is ready
Done(h) == ctxDone[h]

\* a cancel function that ends the scope it was derived from as well
cancelFuncBoth(h) ==
    /\ ctxDone' = [g \in Handles |-> TRUE]
    /\ rootErr' = IF rootErr = "nil" THEN "Canceled" ELSE rootErr
    /\ rootCause' = IF rootErr = "nil" THEN "child" ELSE rootCause

\* the cancel function context.WithCancel(cc.ctx) returned to the h-th Do:
\* it ends the derived scope and nothing else
cancelFunc(h) ==
    /\ ctxDone' = [ctxDone EXCEPT ![h] = TRUE]
    /\ UNCHANGED <<rootErr, rootCause>>

\* the h-th Do returned a Response (its cancelFunc is set)
HasHandle(h) == resp[h] \in {"failed", "ok"}

\* ------------------------------------------------------------ client

Hooks == {"RequestPrepared", "ResponseDelivered"}

\* the fields of the client's ClientTrace that can be set: the two hooks and
\* the embedded *httptrace.ClientTrace
TraceFields == Hooks \cup {"ClientTrace"}

\* the *http.Request resource.Request built: no scope and no httptrace are
\* attached to it
Pristine == [ctx |-> FALSE, trace |-> FALSE]

\* where a step has no request
NoReq == [ctx |-> FALSE, trace |-> FALSE]

\* Client.WithClientConfig: a copy of the request with the derived scope
\* attached, and the httptrace when the ClientTrace has one
WithClientConfig(req) == [ctx |-> TRUE, trace |-> "ClientTrace" \in hooks]

\* one step of Do: what it was, the request it was handed, how it ended
Ev(step, req, out) == [step |-> step, req |-> req, out |-> out]

\* a hook of the ClientTrace is called when it is set
Hook(name, req, out) ==
    IF name \in hooks THEN <<Ev(name, req, out)>> ELSE <<>>

\* a Do that configures the request before it calls RequestPrepared
DoStepsConfigFirst(build, rt) ==
    IF build = "err"
    THEN <<Ev("build", NoReq, "err"), Ev("return", NoReq, "err")>>
    ELSE LET req == WithClientConfig(Pristine)
         IN  <<Ev("build", NoReq, "ok"), Ev("derive", NoReq, "ok")>>
             \o Hook("RequestPrepared", req, "ok")
             \o <<Ev("dispatch", req, rt)>>
             \o Hook("ResponseDelivered", NoReq, rt)
             \o <<Ev("return", NoReq, rt)>>

\* the steps of Client.Do in the order of its statements, for the outcome
\* build of resource.Request and the outcome rt of httpClient.Do
DoSteps(build, rt) ==
    IF build = "err"
    THEN <<Ev("build", NoReq, "err"), Ev("return", NoReq, "err")>>
    ELSE LET req == Pristine
         IN  <<Ev("build", NoReq, "ok"), Ev("derive", NoReq, "ok")>>
             \o Hook("RequestPrepared", req, "ok")
             \o <<Ev("dispatch", WithClientConfig(req), rt)>>
             \o Hook("ResponseDelivered", NoReq, rt)
             \o <<Ev("return", NoReq, rt)>>

\* fmt.Errorf("sending ksql request: %w", err)
SendingErr(err) == [msg |-> "sending ksql request", wraps |-> err]

\* a nil error
NilErr == [msg |-> "", wraps |-> "nil"]

\* a *Response: rr is whether the pointer is non-nil, the other fields
\* whether the field is set; err is the error returned with it
Response(rr, r, ctx, cancel, err) ==
    [rr |-> rr, Response |-> r, Context |-> ctx, cancelFunc |-> cancel,
     err |-> err]

\* nothing returned yet
NoReturn == Response(FALSE, FALSE, FALSE, FALSE, NilErr)

\* a Do that returns an empty Response when the transport fails
ReturnedLostCancel(build, rt) ==
    IF build = "err"
    THEN Response(FALSE, FALSE, FALSE, FALSE, SendingErr("build"))
    ELSE IF rt = "err"
    THEN Response(TRUE, FALSE, FALSE, FALSE, SendingErr("transport"))
    ELSE Response(TRUE, TRUE, TRUE, TRUE, NilErr)

\* what Client.Do returns
Returned(build, rt) ==
    IF build = "err"
    THEN Response(FALSE, FALSE, FALSE, FALSE, SendingErr("build"))
    ELSE IF rt = "err"
    THEN Response(TRUE, FALSE, FALSE, TRUE, SendingErr("transport"))
    ELSE Response(TRUE, TRUE, TRUE, TRUE, NilErr)

\* the place of a step in the order of the statements of Do
Rank(step) ==
    CASE step = "build" -> 1
      [] step = "derive" -> 2
      [] step = "RequestPrepared" -> 3
      [] step = "dispatch" -> 4
      [] step = "ResponseDelivered" -> 5
      [] step = "return" -> 6

\* the steps of a Do up to and with the step named
Through(steps, step) ==
    SelectSeq(steps, LAMBDA e : Rank(e.step) <= Rank(step))

\* a Do that has not begun: pc is the statement it is at, rt the outcome of
\* httpClient.Do, ctx whether the scope of line 167 is derived
NotBegun == [pc |-> "idle", rt |-> "none", ctx |-> FALSE]

\* what no statement of Do changes
DoFrame ==
    /\ UNCHANGED <<rootErr, rootCause, hooks, cancelCalls>>
    /\ UNCHANGED <<bodyVars, chanVars, readerVars, cs>>

\* req, err := resource.Request(cc.serverURL), and the return of line 165.
\* The exchanges of a client are numbered in the order they begin.
DoRequest(h) ==
    /\ doing[h].pc = "idle"
    /\ \A g \in Handles : g < h => doing[g].pc # "idle"
    /\ \E build \in {"ok", "err"} :
         IF build = "err"
         THEN /\ events' = [events EXCEPT ![h] = DoSteps("err", "err")]
              /\ ret' = [ret EXCEPT ![h] = Returned("err", "err")]
              /\ resp' = [resp EXCEPT ![h] = "nil"]
              /\ doing' = [doing EXCEPT ![h].pc = "done"]
         ELSE /\ events' = [events EXCEPT ![h] =
                     Through(DoSteps("ok", "ok"), "build")]
              /\ doing' = [doing EXCEPT ![h].pc = "derive"]
              /\ UNCHANGED <<resp, ret>>
    /\ UNCHANGED ctxDone
    /\ DoFrame

\* ctx, cancel := context.WithCancel(cc.ctx): a scope derived from one that
\* is over is over
DoDerive(h) ==
    /\ doing[h].pc = "derive"
    /\ ctxDone' = [ctxDone EXCEPT ![h] = rootErr # "nil"]
    /\ doing' = [doing EXCEPT ![h].pc = "prepared", ![h].ctx = TRUE]
    /\ events' = [events EXCEPT ![h] = Through(DoSteps("ok", "ok"), "derive")]
    /\ UNCHANGED <<resp, ret>>
    /\ DoFrame

\* lines 168-171: the RequestPrepared hook
DoPrepared(h) ==
    /\ doing[h].pc = "prepared"
    /\ doing' = [doing EXCEPT ![h].pc = "dispatch"]
    /\ events' = [events EXCEPT ![h] =
           Through(DoSteps("ok", "ok"), "RequestPrepared")]
    /\ UNCHANGED <<ctxDone, resp, ret>>
    /\ DoFrame

\* resp, err := cc.httpClient.Do(cc.WithClientConfig(ctx, req)): rt is its
\* outcome; a request whose scope is over is not answered
DoDispatch(h) ==
    /\ doing[h].pc = "dispatch"
    /\ \E rt \in {"ok", "err"} :
         /\ Done(h) => rt = "err"
         /\ doing' = [doing EXCEPT ![h].pc = "delivered", ![h].rt = rt]
         /\ events' = [events EXCEPT ![h] = Through(DoSteps("ok", rt), "dispatch")]
    /\ UNCHANGED <<ctxDone, resp, ret>>
    /\ DoFrame

\* lines 173-175: the ResponseDelivered hook
DoDelivered(h) ==
    /\ doing[h].pc = "delivered"
    /\ doing' = [doing EXCEPT ![h].pc = "return"]
    /\ events' = [events EXCEPT ![h] =
           Through(DoSteps("ok", doing[h].rt), "ResponseDelivered")]
    /\ UNCHANGED <<ctxDone, resp, ret>>
    /\ DoFrame

\* lines 176-184: the two returns with a Response
DoReturn(h) ==
    /\ doing[h].pc = "return"
    /\ doing' = [doing EXCEPT ![h].pc = "done"]
    /\ events' = [events EXCEPT ![h] = DoSteps("ok", doing[h].rt)]
    /\ ret' = [ret EXCEPT ![h] = Returned("ok", doing[h].rt)]
    /\ resp' = [resp EXCEPT ![h] =
           IF doing[h].rt = "err" THEN "failed" ELSE "ok"]
    /\ UNCHANGED ctxDone
    /\ DoFrame

\* Client.Do, statement by statement: other goroutines, the owner of the
\* client's context and the hooks act while an exchange is in flight
Do(h) ==
    \/ DoRequest(h)
    \/ DoDerive(h)
    \/ DoPrepared(h)
    \/ DoDispatch(h)
    \/ DoDelivered(h)
    \/ DoReturn(h)

\* the owner of the client's context (ClientOptions.Context) ends it: every
\* scope derived from it ends with it
EndRoot(err) ==
    /\ rootErr = "nil"
    /\ rootErr' = err
    /\ rootCause' = "owner"
    /\ ctxDone' = [h \in Handles |-> ctxDone[h] \/ doing[h].ctx]
    /\ UNCHANGED <<doing, resp, ret, events, hooks, cancelCalls>>
    /\ UNCHANGED <<bodyVars, chanVars, readerVars, cs>>

\* the owner cancels the client's context
RootCancel == EndRoot("Canceled")

\* the deadline of the client's context passes (example/main.go: WithTimeout)
RootExpire == EndRoot("DeadlineExceeded")

\* Response.Cancel, called by the owner of handle h
Cancel(h) ==
    /\ ret[h].rr /\ ret[h].cancelFunc
    /\ cancelCalls[h] < MaxCancels
    /\ cancelFunc(h)
    /\ cancelCalls' = [cancelCalls EXCEPT ![h] = @ + 1]
    /\ UNCHANGED <<doing, resp, ret, events, hooks>>
    /\ UNCHANGED <<bodyVars, chanVars, readerVars, cs>>

\* ------------------------------------------------- reader goroutine

\* the reader is blocked in dataCh <- byt (lines 101 and 96)
DataOffered == rpc \in {"sendData", "sendLast"}

\* the reader is blocked in errCh <- ... (lines 83 and 92/94)
ErrOffered == rpc \in {"sendCanceled", "sendErr"}

\* where the reader goes once its send on dataCh was received
AfterDataSend == IF rpc = "sendData" THEN "loop" ELSE "closeData"

\* a reader that sends scanner.Bytes() after the terminal condition whatever
\* its length
AfterErrSendFlush ==
    IF rpc = "sendCanceled" THEN "closeData" ELSE "sendLast"

\* where the reader goes once its send on errCh was received: line 84 after
\* the send of line 83; filterSendDataChannel of line 96 after lines 92/94
AfterErrSend ==
    IF rpc = "sendCanceled" THEN "closeData"
    ELSE IF Meaningful(sc.token) THEN "sendLast"
    ELSE "closeData"

\* a reader loop that scans without looking at the scope
ReaderCheckNone ==
    /\ rpc = "loop"
    /\ rpc' = "scan" /\ UNCHANGED rerr
    /\ UNCHANGED <<sc, scanned, published>>
    /\ UNCHANGED <<clientVars, bodyVars, chanVars, cs>>

\* select { case <-rr.Context.Done(): ... default: ... }
ReaderCheck ==
    /\ rpc = "loop"
    /\ IF Done(RR)
       THEN rpc' = "sendCanceled" /\ rerr' = "Canceled"
       ELSE rpc' = "scan" /\ UNCHANGED rerr
    /\ UNCHANGED <<sc, scanned, published>>
    /\ UNCHANGED <<clientVars, bodyVars, chanVars, cs>>

\* a reader whose send of a record does not wait for a receiver
ReaderScanNoWait ==
    /\ rpc = "scan"
    /\ LET r == Scan(sc) IN
         /\ sc' = r.s
         /\ IF ~r.ok
            THEN /\ rerr' = IF ScannerErr(r.s) = "nil" THEN "EOF" ELSE ScannerErr(r.s)
                 /\ rpc' = "sendErr"
                 /\ UNCHANGED <<scanned, published>>
            ELSE /\ scanned' = Append(scanned, r.s.token)
                 /\ UNCHANGED rerr
                 /\ rpc' = "loop"
                 /\ published' = IF Meaningful(r.s.token)
                                 THEN Append(published, r.s.token)
                                 ELSE published
    /\ UNCHANGED <<clientVars, bodyVars, chanVars, cs>>

\* scanner.Scan() and what follows it up to the next channel operation
ReaderScan ==
    /\ rpc = "scan"
    /\ LET r == Scan(sc) IN
         /\ sc' = r.s
         /\ IF ~r.ok
            THEN /\ rerr' = IF ScannerErr(r.s) = "nil" THEN "EOF" ELSE ScannerErr(r.s)
                 /\ rpc' = "sendErr"
                 /\ UNCHANGED <<scanned, published>>
            ELSE /\ scanned' = Append(scanned, r.s.token)
                 /\ UNCHANGED rerr
                 /\ IF Meaningful(r.s.token)
                    THEN rpc' = "sendData" /\ published' = Append(published, r.s.token)
                    ELSE rpc' = "loop" /\ UNCHANGED published
    /\ UNCHANGED <<clientVars, bodyVars, chanVars, cs>>

\* a reader that leaves the data channel open
ReaderCloseDataSkip ==
    /\ rpc = "closeData"
    /\ rpc' = "closeErr"
    /\ UNCHANGED <<once, dataCh, errCh, readers, dataClosed, errClosed>>
    /\ UNCHANGED <<sc, rerr, scanned, published>>
    /\ UNCHANGED <<clientVars, bodyVars, cs>>

\* close(dataCh)
ReaderCloseData ==
    /\ rpc = "closeData"
    /\ dataClosed' = TRUE
    /\ rpc' = "closeErr"
    /\ UNCHANGED <<once, dataCh, errCh, readers, errClosed>>
    /\ UNCHANGED <<sc, rerr, scanned, published>>
    /\ UNCHANGED <<clientVars, bodyVars, cs>>

\* close(errCh); return
ReaderCloseErr ==
    /\ rpc = "closeErr"
    /\ errClosed' = TRUE
    /\ rpc' = "done"
    /\ UNCHANGED <<once, dataCh, errCh, readers, dataClosed>>
    /\ UNCHANGED <<sc, rerr, scanned, published>>
    /\ UNCHANGED <<clientVars, bodyVars, cs>>

\* ------------------------------------------------------ Response.Read

\* a guard that lets every call through
OnceGuardNone == TRUE

\* rr.once.Do(f) runs f only in the first call
OnceGuard == ~once

\* initAsyncRead: make the two channels, start the reader goroutine
initAsyncRead ==
    /\ dataCh' = readers + 1
    /\ errCh' = readers + 1
    /\ dataClosed' = FALSE
    /\ errClosed' = FALSE
    /\ readers' = readers + 1
    /\ sc' = NewScanner
    /\ rpc' = "loop"
    /\ UNCHANGED <<rerr, scanned, published>>

\* rr.Read(): once.Do(initAsyncRead), then the two fields are returned
Read ==
    /\ resp[RR] = "ok"
    /\ once' = TRUE
    /\ IF OnceGuard
       THEN initAsyncRead
       ELSE /\ UNCHANGED <<dataCh, errCh, readers, dataClosed, errClosed>>
            /\ UNCHANGED readerVars

\* caller c's state changes to r
Upd(c, r) == cs' = [cs EXCEPT ![c] = r]

\* a caller that has not called yet.  pc is where its call is, mode what it
\* called, dataCh and errCh what rr.Read() returned to it, byt the record
\* in hand, cerr the value received from errCh, dbuf the buffer of
\* drainDataToBytes, buf the buffer of ReadAll, result what ReadStreaming
\* returned.  Ghosts: hlog, the handler's invocations in order; drained,
\* the records received by drainDataToBytes; failedAt, the kind of
\* invocation in which the handler failed.
Idle == [pc |-> "idle", mode |-> "none", dataCh |-> 0, errCh |-> 0,
         byt |-> <<>>, cerr |-> "nil", dbuf |-> <<>>, buf |-> <<>>,
         hlog |-> <<>>, drained |-> <<>>, failedAt |-> "none",
         result |-> [kind |-> "none", err |-> "nil"]]

\* caller c calls rr.Read() itself
CallRead(c) ==
    /\ cs[c].pc = "idle"
    /\ Read
    /\ Upd(c, [cs[c] EXCEPT !.pc = "returned", !.mode = "read",
                            !.dataCh = dataCh', !.errCh = errCh'])
    /\ UNCHANGED <<clientVars, bodyVars>>

\* caller c calls rr.ReadStreaming(handler): line 159
CallReadStreaming(c) ==
    /\ cs[c].pc = "idle"
    /\ Read
    /\ Upd(c, [cs[c] EXCEPT !.pc = "select", !.mode = "streaming",
                            !.dataCh = dataCh', !.errCh = errCh'])
    /\ UNCHANGED <<clientVars, bodyVars>>

\* caller c calls rr.ReadAll(): newBuffer(), then ReadStreaming's line 159
CallReadAll(c) ==
    /\ cs[c].pc = "idle"
    /\ Read
    /\ Upd(c, [cs[c] EXCEPT !.pc = "select", !.mode = "all",
                            !.buf = newBuffer,
                            !.dataCh = dataCh', !.errCh = errCh'])
    /\ UNCHANGED <<clientVars, bodyVars>>

\* -------------------------------------------- Response.ReadStreaming

\* an entry of hlog: one invocation of the handler.  closed says that byt
\* is the zero value received from the closed data channel.
Invocation(kind, byt, closed) == [kind |-> kind, byt |-> byt, closed |-> closed]

\* the handler log after one more invocation with the zero value received
\* from the closed data channel.  A closed channel is always ready, so a
\* call can make any number of these invocations in a row: the log keeps
\* the first MaxClosedRecv of them.
LogClosed(log) ==
    IF Len(SelectSeq(log, LAMBDA e : e.closed)) < MaxClosedRecv
    THEN Append(log, Invocation("record", <<>>, TRUE))
    ELSE log

\* case byt = <-dataCh: the receive, and the call of the handler
RecvData(c) ==
    /\ cs[c].pc = "select"
    /\ cs[c].dataCh = dataCh
    /\ \/ /\ DataOffered
          /\ rpc' = AfterDataSend
          /\ Upd(c, [cs[c] EXCEPT !.pc = "handler", !.byt = sc.token,
                 !.hlog = Append(@, Invocation("record", sc.token, FALSE))])
       \/ /\ dataClosed
          /\ UNCHANGED rpc
          /\ Upd(c, [cs[c] EXCEPT !.pc = "handler", !.byt = <<>>,
                 !.hlog = LogClosed(@)])
    /\ UNCHANGED <<sc, rerr, scanned, published>>
    /\ UNCHANGED <<clientVars, bodyVars, chanVars>>

\* the handler that passes every error on it gets: lines 163-166 without
\* the call of rr.Cancel()
HandlerFailedNoCancel(c) ==
    /\ Upd(c, [cs[c] EXCEPT !.pc = "returned", !.failedAt = "record",
                            !.result = [kind |-> "handler", err |-> "herr"]])
    /\ UNCHANGED <<rootErr, rootCause, ctxDone>>

\* if err := handler(byt); err != nil { rr.Cancel(); return err }
HandlerFailed(c) ==
    /\ cancelFunc(RR)
    /\ Upd(c, [cs[c] EXCEPT !.pc = "returned", !.failedAt = "record",
                            !.result = [kind |-> "handler", err |-> "herr"]])

\* the handler returns from an ordinary record.  The handler of ReadAll
\* writes the record to buf and never fails.
HandlerReturn(c) ==
    /\ cs[c].pc = "handler"
    /\ \/ /\ cs[c].mode = "streaming"
          /\ \/ HandlerFailed(c)
             \/ /\ Upd(c, [cs[c] EXCEPT !.pc = "select"])
                /\ UNCHANGED <<rootErr, rootCause, ctxDone>>
       \/ /\ cs[c].mode = "all"
          /\ Upd(c, [cs[c] EXCEPT !.pc = "select",
                                  !.buf = writeToBuffer(cs[c].byt, @)])
          /\ UNCHANGED <<rootErr, rootCause, ctxDone>>
    /\ UNCHANGED <<doing, resp, ret, events, hooks, cancelCalls>>
    /\ UNCHANGED <<bodyVars, chanVars, readerVars>>

\* case err := <-errCh
RecvErr(c) ==
    /\ cs[c].pc = "select"
    /\ cs[c].errCh = errCh
    /\ \/ /\ ErrOffered
          /\ rpc' = AfterErrSend
          /\ Upd(c, [cs[c] EXCEPT !.pc = "cancel", !.cerr = rerr])
       \/ /\ errClosed
          /\ UNCHANGED rpc
          /\ Upd(c, [cs[c] EXCEPT !.pc = "cancel", !.cerr = "nil"])
    /\ UNCHANGED <<sc, rerr, scanned, published>>
    /\ UNCHANGED <<clientVars, bodyVars, chanVars>>

\* the errors ReadStreaming drains after: line 175
Recoverable == {"EOF", "Canceled", "DeadlineExceeded"}

\* a classification that drains after no error but io.EOF
isOneOfEOFOnly(e, errs) == e = "EOF"

\* a classification that drains after every error
isOneOfAny(e, errs) == TRUE

\* isOneOf(e, errs): errors.Is(e, err) for some err of errs
isOneOf(e, errs) == \E err \in errs : e = err

\* fmt.Errorf("reading response body: %w", err)
Wrapped(err) == [kind |-> "wrapped", err |-> err]

\* a ReadStreaming that classifies the terminal condition without calling
\* rr.Cancel()
CancelOnTerminalNoCancel(c) ==
    /\ cs[c].pc = "cancel"
    /\ UNCHANGED <<rootErr, rootCause, ctxDone>>
    /\ IF isOneOf(cs[c].cerr, Recoverable)
       THEN Upd(c, [cs[c] EXCEPT !.pc = "drain", !.dbuf = newBuffer])
       ELSE Upd(c, [cs[c] EXCEPT !.pc = "returned", !.result = Wrapped(cs[c].cerr)])
    /\ UNCHANGED <<doing, resp, ret, events, hooks, cancelCalls>>
    /\ UNCHANGED <<bodyVars, chanVars, readerVars>>

\* rr.Cancel() of line 171, then the classification of line 175: the drain
\* starts with newBuffer() (line 128), or ReadStreaming returns (line 188)
CancelOnTerminal(c) ==
    /\ cs[c].pc = "cancel"
    /\ cancelFunc(RR)
    /\ IF isOneOf(cs[c].cerr, Recoverable)
       THEN Upd(c, [cs[c] EXCEPT !.pc = "drain", !.dbuf = newBuffer])
       ELSE Upd(c, [cs[c] EXCEPT !.pc = "returned", !.result = Wrapped(cs[c].cerr)])
    /\ UNCHANGED <<doing, resp, ret, events, hooks, cancelCalls>>
    /\ UNCHANGED <<bodyVars, chanVars, readerVars>>

\* a drain that takes what is ready and does not wait for close(dataCh)
DrainNoWait(c) ==
    /\ cs[c].pc = "drain"
    /\ cs[c].dataCh = dataCh
    /\ UNCHANGED rpc
    /\ Upd(c, [cs[c] EXCEPT !.pc = "final", !.byt = cs[c].dbuf,
           !.hlog = Append(@, Invocation("final", cs[c].dbuf, FALSE))])
    /\ UNCHANGED <<sc, rerr, scanned, published>>
    /\ UNCHANGED <<clientVars, bodyVars, chanVars>>

\* drainDataToBytes: one turn of for byt := range dataCh, or its end, after
\* which the handler is called with buf.Bytes() (line 180)
Drain(c) ==
    /\ cs[c].pc = "drain"
    /\ cs[c].dataCh = dataCh
    /\ \/ /\ DataOffered
          /\ rpc' = AfterDataSend
          /\ Upd(c, [cs[c] EXCEPT !.dbuf = writeToBuffer(sc.token, @),
                                  !.drained = Append(@, sc.token)])
       \/ /\ dataClosed
          /\ UNCHANGED rpc
          /\ Upd(c, [cs[c] EXCEPT !.pc = "final", !.byt = cs[c].dbuf,
                 !.hlog = Append(@, Invocation("final", cs[c].dbuf, FALSE))])
    /\ UNCHANGED <<sc, rerr, scanned, published>>
    /\ UNCHANGED <<clientVars, bodyVars, chanVars>>

\* what ReadStreaming returns when the final handler call succeeded
\* (lines 183-186)
FinalResult(err) ==
    IF err = "EOF" THEN [kind |-> "nil", err |-> "nil"] ELSE Wrapped(err)

\* the handler returns from the final call: lines 180-186
FinalReturn(c) ==
    /\ cs[c].pc = "final"
    /\ \/ /\ cs[c].mode = "streaming"
          /\ \/ Upd(c, [cs[c] EXCEPT !.pc = "returned", !.failedAt = "final",
                        !.result = [kind |-> "handler", err |-> "herr"]])
             \/ Upd(c, [cs[c] EXCEPT !.pc = "returned",
                        !.result = FinalResult(cs[c].cerr)])
       \/ /\ cs[c].mode = "all"
          /\ Upd(c, [cs[c] EXCEPT !.pc = "returned",
                                  !.buf = writeToBuffer(cs[c].byt, @),
                                  !.result = FinalResult(cs[c].cerr)])
    /\ UNCHANGED <<clientVars, bodyVars, chanVars, readerVars>>

\* ---------------------------------------------------- specifications

Bodies(n) == SeqsUpTo(Alphabet, n)

\* a client made by NewClient, and the body the server will answer with
InitWith(bodies, traces) ==
    /\ rootErr = "nil"
    /\ rootCause = "nil"
    /\ ctxDone = [h \in Handles |-> FALSE]
    /\ resp = [h \in Handles |-> "none"]
    /\ doing = [h \in Handles |-> NotBegun]
    /\ ret = [h \in Handles |-> NoReturn]
    /\ events = [h \in Handles |-> <<>>]
    /\ hooks \in traces
    /\ cancelCalls = [h \in Handles |-> 0]
    /\ body \in bodies
    /\ bodyErr \in BodyErrs
    /\ once = FALSE
    /\ dataCh = 0
    /\ errCh = 0
    /\ readers = 0
    /\ dataClosed = FALSE
    /\ errClosed = FALSE
    /\ sc = NewScanner
    /\ rpc = "none"
    /\ rerr = "nil"
    /\ scanned = <<>>
    /\ published = <<>>
    /\ cs = [c \in Callers |-> Idle]

Reader == ReaderCheck \/ ReaderScan \/ ReaderCloseData \/ ReaderCloseErr

Scopes == Cancel(RR) \/ RootCancel \/ RootExpire

\* one call of ReadStreaming or ReadAll on the handle of one exchange
Init == InitWith(Bodies(MaxBodyLen), {{}})

Caller(c) ==
    \/ CallReadStreaming(c)
    \/ CallReadAll(c)
    \/ RecvData(c)
    \/ HandlerReturn(c)
    \/ RecvErr(c)
    \/ CancelOnTerminal(c)
    \/ Drain(c)
    \/ FinalReturn(c)

Next == Do(RR) \/ Scopes \/ Reader \/ Caller(1)

Spec == Init /\ [][Next]_vars

\* the same, with the reader goroutine scheduled whenever it can take a step
\* on its own: every read of the finite body returns
SpecFair == Spec /\ WF_vars(Reader)

\* bodies of one letter and the delimiter: whether a call returns does not
\* depend on which letters its records are made of
InitLive == InitWith(SeqsUpTo({10, 97}, MaxBodyLen), {{}})

\* one call, with the reader goroutine and the calling goroutine scheduled:
\* the reader's steps and the caller's call, handler and receives take
\* place when they can
SpecLive ==
    InitLive /\ [][Next]_vars /\ WF_vars(Reader) /\ WF_vars(Caller(1))

\* the bodies of the concurrent calls: with at most one record in a body,
\* one letter and the delimiter make every shape of it
BodiesConcurrent == SeqsUpTo({10, 97}, MaxBodyLenConcurrent)

\* several callers of Read, ReadStreaming and ReadAll on one handle
InitConcurrent == InitWith(BodiesConcurrent, {{}})

NextConcurrent ==
    \/ Do(RR)
    \/ Reader
    \/ \E c \in Callers : CallRead(c) \/ Caller(c)

SpecConcurrent == InitConcurrent /\ [][NextConcurrent]_vars

\* the exchanges of one client and their scopes
InitClient == InitWith({<<>>}, SUBSET TraceFields) /\ bodyErr = "EOF"

NextClient ==
    \/ \E h \in Handles : Do(h) \/ Cancel(h)
    \/ RootCancel
    \/ RootExpire

SpecClient == InitClient /\ [][NextClient]_vars

\* ------------------------------------------------------------ claims

\* the invocations of kind k in a handler log
OfKind(log, k) == SelectSeq(log, LAMBDA e : e.kind = k)

\* the bytes of the ordinary-record invocations of a handler log, in order
RecordBytes(log) ==
    [i \in 1..Len(OfKind(log, "record")) |-> OfKind(log, "record")[i].byt]

IsPrefix(s, t) == Len(s) <= Len(t) /\ SubSeq(t, 1, Len(s)) = s

\* the units of a body: what lies between its delimiters; a body that ends
\* with a delimiter has no unit after it
RECURSIVE Units(_)
Units(b) ==
    IF b = <<>> THEN <<>>
    ELSE IF IndexByte(b, 10) < 0 THEN <<b>>
    ELSE <<SubSeq(b, 1, IndexByte(b, 10))>>
         \o Units(SubSeq(b, IndexByte(b, 10) + 2, Len(b)))

NonEmpty(us) == SelectSeq(us, LAMBDA u : u # <<>>)

\* every unit of the body is delimiter-terminated
AllTerminated(b) == b = <<>> \/ b[Len(b)] = 10

\* the handler log that delivers each of us as an ordinary record and then
\* rest in the final invocation
Delivery(us, rest) ==
    [i \in 1..Len(us) |-> Invocation("record", us[i], FALSE)]
    \o <<Invocation("final", rest, FALSE)>>

\* caller c has called Read, ReadStreaming or ReadAll
Called(c) == cs[c].mode # "none"

\* C1: however many callers call Read, ReadStreaming and ReadAll on one
\* handle, and however the calls interleave, at most one reader goroutine
\* is started, and every call gets the same pair of channels, the one the
\* handle holds.
C1_ReaderStartedOnce ==
    /\ readers <= 1
    /\ once => readers = 1
    /\ \A c \in Callers : Called(c) =>
          /\ cs[c].dataCh = dataCh /\ cs[c].errCh = errCh
          /\ cs[c].dataCh # 0 /\ cs[c].errCh # 0
    /\ \A c, d \in Callers : Called(c) /\ Called(d) =>
          cs[c].dataCh = cs[d].dataCh /\ cs[c].errCh = cs[d].errCh

\* two calls are in progress on the handle at once, and one reader runs
C1_Witness ==
    \E c, d \in Callers :
       /\ cs[c].mode = "streaming" /\ cs[c].pc = "select"
       /\ cs[d].mode = "all" /\ cs[d].pc = "select"
       /\ readers = 1

\* three kinds of call were made on the handle, one after the other
C1_WitnessRead ==
    \E c, d \in Callers :
       /\ cs[c].mode = "read"
       /\ cs[d].mode = "streaming" /\ cs[d].pc = "returned"
       /\ readers = 1

\* C2: during one ReadStreaming call the handler gets the records in the
\* order the reader scanned them, none twice and none left out, and the
\* final invocation comes after every ordinary one and carries the records
\* that were still to come, concatenated in arrival order.
C2_OrderedDelivery ==
    LET log == cs[1].hlog
        n == Len(OfKind(log, "record"))
    IN  cs[1].mode = "streaming" =>
          /\ IsPrefix(RecordBytes(log), published)
          /\ \A i \in 1..Len(log) : log[i].kind = "final" =>
                /\ i = Len(log)
                /\ log[i].byt = Concat(SubSeq(published, n + 1, Len(published)))

\* what does hold of the order: the ordinary invocations are the published
\* records in order, the final one is the last, and it carries the contents
\* of newBuffer() followed by the drained records in arrival order
C2_OrderModuloBuffer ==
    LET log == cs[1].hlog
    IN  cs[1].mode = "streaming" =>
          /\ IsPrefix(RecordBytes(log), published)
          /\ \A i \in 1..Len(log) : log[i].kind = "final" =>
                /\ i = Len(log)
                /\ RecordBytes(log) \o cs[1].drained = published
                /\ log[i].byt = newBuffer \o Concat(cs[1].drained)

\* the call ran to the clean end of the stream: it received io.EOF, the
\* handler never failed, and it returned
CleanEnd(c) ==
    /\ cs[c].pc = "returned"
    /\ bodyErr = "EOF"
    /\ cs[c].cerr = "EOF"
    /\ cs[c].failedAt = "none"

\* C3: for a body whose units are all delimiter-terminated and that ends in
\* a clean end of stream, ReadStreaming invokes the handler once per
\* non-empty unit, in scan order, then once more with the empty byte
\* sequence, and returns success.
C3_TerminatedUnits ==
    (cs[1].mode = "streaming" /\ CleanEnd(1) /\ AllTerminated(body)) =>
       /\ cs[1].hlog = Delivery(NonEmpty(Units(body)), <<>>)
       /\ cs[1].result.kind = "nil"

\* C4: for a body whose last unit has no delimiter and that ends in a clean
\* end of stream, ReadStreaming delivers the terminated units as ordinary
\* records and the last unit in the one final invocation, and returns
\* success.
C4_UnterminatedLast ==
    (cs[1].mode = "streaming" /\ CleanEnd(1) /\ ~AllTerminated(body)) =>
       /\ cs[1].hlog =
             Delivery(NonEmpty(SubSeq(Units(body), 1, Len(Units(body)) - 1)),
                      Units(body)[Len(Units(body))])
       /\ cs[1].result.kind = "nil"

\* C5: for a body that ends in a clean end of stream, ReadAll returns
\* success and exactly the concatenation of the body's non-empty records:
\* "abc" for "a\nb\nc\n", nothing for the empty body.
C5_ReadAllConcat ==
    (cs[1].mode = "all" /\ CleanEnd(1)) =>
       /\ cs[1].result.kind = "nil"
       /\ cs[1].buf = Concat(NonEmpty(Units(body)))

\* what ReadAll does return at a clean end of stream: the contents of its
\* newBuffer(), the records, and the contents of the drain's newBuffer()
C5_ReadAllPadded ==
    (cs[1].mode = "all" /\ CleanEnd(1)) =>
       /\ cs[1].result.kind = "nil"
       /\ cs[1].buf = newBuffer \o Concat(NonEmpty(Units(body))) \o newBuffer

\* the error the handler returns, as ReadStreaming passes it on
HandlerErr == [kind |-> "handler", err |-> "herr"]

\* C6: if the handler fails on an ordinary record, ReadStreaming returns
\* that very error, not wrapped; the handle's scope is canceled by then; no
\* drain was done; and the call never invokes the handler again.
C6_HandlerFailure ==
    /\ [](cs[1].failedAt = "record" =>
            /\ cs[1].pc = "returned"
            /\ cs[1].result = HandlerErr
            /\ Done(RR)
            /\ cs[1].dbuf = <<>> /\ cs[1].drained = <<>>
            /\ OfKind(cs[1].hlog, "final") = <<>>)
    /\ [][cs[1].pc = "returned" => cs'[1].hlog = cs[1].hlog]_vars

\* the handler took one record and failed on the second
C6_Witness ==
    /\ cs[1].failedAt = "record"
    /\ Len(cs[1].hlog) = 2
    /\ cancelCalls[RR] = 0
    /\ rootErr = "nil"

\* C7: when ReadStreaming receives io.EOF, Canceled or DeadlineExceeded it
\* drains the data channel until it is closed and invokes the handler
\* exactly once more, with the drained records joined in the order of their
\* arrival (the empty byte sequence when there are none); it returns the
\* handler's error if that invocation failed, else nil after io.EOF, else
\* the condition wrapped.
C7_RecoverableDrain ==
    (cs[1].pc = "returned" /\ cs[1].cerr \in Recoverable) =>
       /\ Len(OfKind(cs[1].hlog, "final")) = 1
       /\ cs[1].hlog[Len(cs[1].hlog)] =
             Invocation("final", Concat(cs[1].drained), FALSE)
       /\ dataClosed
       /\ cs[1].result =
             IF cs[1].failedAt = "final" THEN HandlerErr
             ELSE IF cs[1].cerr = "EOF" THEN [kind |-> "nil", err |-> "nil"]
             ELSE Wrapped(cs[1].cerr)

\* what does hold: one final invocation after the drain, carrying the 512
\* zero bytes of newBuffer followed by the drained records, and the result
C7_DrainModuloBuffer ==
    (cs[1].pc = "returned" /\ cs[1].cerr \in Recoverable) =>
       /\ Len(OfKind(cs[1].hlog, "final")) = 1
       /\ cs[1].hlog[Len(cs[1].hlog)] =
             Invocation("final", Zeros(MinRead) \o Concat(cs[1].drained), FALSE)
       /\ dataClosed
       /\ cs[1].result =
             IF cs[1].failedAt = "final" THEN HandlerErr
             ELSE IF cs[1].cerr = "EOF" THEN [kind |-> "nil", err |-> "nil"]
             ELSE Wrapped(cs[1].cerr)

\* the owner canceled the handle in mid-stream: the call had passed a
\* record to the handler, drained, and returned the cancellation
C7_Witness ==
    /\ cs[1].pc = "returned"
    /\ cs[1].cerr = "Canceled"
    /\ cancelCalls[RR] = 1
    /\ rootErr = "nil"
    /\ Len(scanned) < Len(NonEmpty(Units(body)))
    /\ Len(cs[1].hlog) = 2
    /\ cs[1].result = Wrapped("Canceled")

\* the body's read ended with DeadlineExceeded and the final call failed
C7_WitnessDeadline ==
    /\ cs[1].pc = "returned"
    /\ cs[1].cerr = "DeadlineExceeded"
    /\ cs[1].failedAt = "final"

\* C8: when ReadStreaming receives any other terminal condition it returns
\* the condition wrapped, at once: it does not drain the data channel and
\* does not invoke the handler again.
C8_Unrecoverable ==
    (cs[1].pc = "returned" /\ cs[1].cerr \notin Recoverable \cup {"nil"}) =>
       /\ cs[1].result = Wrapped(cs[1].cerr)
       /\ OfKind(cs[1].hlog, "final") = <<>>
       /\ cs[1].dbuf = <<>> /\ cs[1].drained = <<>>
       /\ cs[1].failedAt = "none"

\* the read of the body failed after a record had been delivered
C8_Witness ==
    /\ cs[1].pc = "returned"
    /\ cs[1].cerr = "ErrUnexpected"
    /\ Len(cs[1].hlog) = 1
    /\ ~dataClosed

\* C9: Cancel on a handle ends that handle's scope and no other: the
\* client's context and the scopes of the other handles are as before; a
\* second Cancel changes no scope at all.  And the client's context is
\* ended by its owner only.
C9_CancelOwnScope ==
    /\ [](rootErr # "nil" => rootCause = "owner")
    /\ [](\A h \in Handles :
            Done(h) => \/ cancelCalls[h] > 0
                       \/ rootErr # "nil"
                       \/ h = RR /\ \E c \in Callers : Called(c))
    /\ [][\A h \in Handles : cancelCalls'[h] > cancelCalls[h] =>
            /\ rootErr' = rootErr
            /\ Done(h)'
            /\ \A g \in Handles \ {h} : ctxDone'[g] = ctxDone[g]
            /\ cancelCalls[h] > 0 => ctxDone' = ctxDone]_vars

\* one handle was canceled twice; its sibling and the client's context live
C9_Witness ==
    \E h, g \in Handles :
       /\ cancelCalls[h] = 2 /\ Done(h)
       /\ resp[g] = "ok" /\ ~Done(g)
       /\ rootErr = "nil"

\* C10: when ReadStreaming returns after io.EOF, Canceled or
\* DeadlineExceeded, every record the reader published went to the handler,
\* as a record or in the drained remainder, and the reader is not left
\* blocked: the data channel is closed, and all the reader has left to do
\* is to close the error channel, for which it needs no receiver.
C10_NothingLostNoLeak ==
    /\ []((cs[1].pc = "returned" /\ cs[1].cerr \in Recoverable) =>
            /\ RecordBytes(cs[1].hlog) \o cs[1].drained = published
            /\ dataClosed
            /\ rpc \in {"closeErr", "done"})
    /\ (cs[1].pc = "returned" /\ cs[1].cerr \in Recoverable)
          ~> (rpc = "done" /\ errClosed)

\* the call returned the cancellation while the reader had still to close
\* the error channel, after a record was published
C10_Witness ==
    /\ cs[1].pc = "returned"
    /\ cs[1].cerr = "Canceled"
    /\ Len(published) = 1
    /\ rpc = "closeErr"
    /\ ~errClosed

\* how often x occurs in the sequence q
Count(q, x) == Cardinality({i \in 1..Len(q) : q[i] = x})

\* the same elements, each as often
SameBag(q, r) ==
    \A x \in {q[i] : i \in 1..Len(q)} \cup {r[i] : i \in 1..Len(r)} :
       Count(q, x) = Count(r, x)

\* the non-empty byte sequences caller c's handler was invoked with
Payloads(c) ==
    LET log == SelectSeq(cs[c].hlog, LAMBDA e : e.byt # <<>>)
    IN  [i \in 1..Len(log) |-> log[i].byt]

\* the records caller c took from the data channel: those it passed to the
\* handler as records, and those it drained
Taken(c) ==
    LET log == SelectSeq(cs[c].hlog, LAMBDA e : e.kind = "record" /\ ~e.closed)
    IN  [i \in 1..Len(log) |-> log[i].byt] \o cs[c].drained

\* callers c and d, and nobody else, called ReadStreaming; both calls ran to
\* their return with no handler failure, over a body that ended cleanly
TwoClean(c, d) ==
    /\ c # d
    /\ \A e \in Callers : Called(e) <=> e \in {c, d}
    /\ \A e \in {c, d} : /\ cs[e].mode = "streaming"
                         /\ cs[e].pc = "returned"
                         /\ cs[e].failedAt = "none"
    /\ bodyErr = "EOF"
    /\ \E e \in {c, d} : cs[e].cerr = "EOF"

\* C11: when two callers invoke ReadStreaming on one handle, the handler
\* invocations of both together carry each record of the body exactly once:
\* none goes to both, none is lost, and no invocation carries bytes that
\* are not in the body.
C11_ExactlyOnceAcrossCallers ==
    \A c, d \in Callers : TwoClean(c, d) =>
       SameBag(Payloads(c) \o Payloads(d), NonEmpty(Units(body)))

\* what does hold: the records the two callers took from the data channel
\* are the records of the body, each once
C11_RecordsTakenOnce ==
    \A c, d \in Callers : TwoClean(c, d) =>
       SameBag(Taken(c) \o Taken(d), NonEmpty(Units(body)))

\* C12: every Response that Do returns has its cancelFunc set.  When the
\* transport fails Do returns a non-nil Response holding the cancelFunc and
\* nothing else (no http.Response, no Context) with a wrapped error; when
\* it succeeds, a Response with the http.Response, the derived Context and
\* the cancelFunc, and no error.  Cancel on either cancels the scope that
\* was derived for that request.
C12_HandleHasCancel ==
    \A h \in Handles :
       /\ ret[h].rr => ret[h].cancelFunc
       /\ resp[h] = "failed" =>
             ret[h] = Response(TRUE, FALSE, FALSE, TRUE, SendingErr("transport"))
       /\ resp[h] = "ok" =>
             ret[h] = Response(TRUE, TRUE, TRUE, TRUE, NilErr)
       /\ cancelCalls[h] > 0 => ret[h].rr /\ Done(h)

\* Cancel was called on the Response of a failed exchange and on the
\* Response of a successful one, with the client's context still live
C12_Witness ==
    \E g, h \in Handles :
       /\ resp[g] = "failed" /\ cancelCalls[g] > 0 /\ Done(g)
       /\ resp[h] = "ok" /\ cancelCalls[h] > 0 /\ Done(h)
       /\ rootErr = "nil"

\* the steps the h-th Do performed
StepsOf(h) == [i \in 1..Len(events[h]) |-> events[h][i].step]

\* how often the h-th Do performed the step
Times(h, step) == Count(StepsOf(h), step)

\* the step as the h-th Do performed it
At(h, step) ==
    events[h][CHOOSE i \in 1..Len(events[h]) : events[h][i].step = step]

\* C13: Do builds the request, derives the child scope, calls the
\* RequestPrepared hook (when set) with the request as built, before a
\* scope or an httptrace is attached to it, dispatches the request, calls
\* the ResponseDelivered hook (when set) with the outcome of the dispatch,
\* and returns, in this order; a hook that is set is called exactly once
\* per dispatched request; when the build fails Do returns no Response and
\* performs none of the later steps.
C13_DoOrder ==
    \A h \in Handles :
       /\ \A i, j \in 1..Len(events[h]) :
             i < j => Rank(StepsOf(h)[i]) < Rank(StepsOf(h)[j])
       /\ \A s \in Hooks : s \notin hooks => Times(h, s) = 0
       /\ Times(h, "RequestPrepared") = 1 =>
             At(h, "RequestPrepared").req = Pristine
       /\ Times(h, "dispatch") = 1 =>
             /\ Times(h, "derive") = 1
             /\ At(h, "dispatch").req.ctx
             /\ "RequestPrepared" \in hooks => Times(h, "RequestPrepared") = 1
       /\ Times(h, "ResponseDelivered") = 1 =>
             At(h, "ResponseDelivered").out = At(h, "dispatch").out
       /\ resp[h] = "none" => Times(h, "return") = 0
       /\ resp[h] = "nil" =>
             /\ StepsOf(h) = <<"build", "return">>
             /\ ~ret[h].rr
             /\ ~doing[h].ctx
       /\ HasHandle(h) =>
             /\ \A s \in {"build", "derive", "dispatch", "return"} :
                   Times(h, s) = 1
             /\ \A s \in Hooks : Times(h, s) = IF s \in hooks THEN 1 ELSE 0

\* with both hooks set, one Do failed to build its request and another
\* dispatched its request and called both hooks
C13_Witness ==
    /\ Hooks \subseteq hooks
    /\ \E g, h \in Handles :
          /\ resp[g] = "nil"
          /\ resp[h] = "ok"
          /\ Len(events[h]) = 6

\* caller c's call is past the receive of a terminal condition
PastTerminal(c) ==
    \/ cs[c].pc \in {"drain", "final"}
    \/ /\ cs[c].pc = "returned"
       /\ cs[c].mode \in {"streaming", "all"}
       /\ cs[c].failedAt # "record"

\* C14: in every call of ReadStreaming that receives a terminal condition,
\* the handle's scope is canceled before the first step of the drain and
\* before the call returns, whatever the terminal condition is.
C14_CancelBeforeDrain ==
    \A c \in Callers :
       /\ PastTerminal(c) => Done(RR)
       /\ cs[c].drained # <<>> => Done(RR)

\* the call that received io.EOF is in its drain and nobody else has ended
\* the scope
C14_Witness ==
    /\ cs[1].pc = "drain"
    /\ cs[1].cerr = "EOF"
    /\ cancelCalls[RR] = 0
    /\ rootErr = "nil"
    /\ Done(RR)

\* the call that received an unrecoverable error has returned and nobody
\* else has ended the scope
C14_WitnessUnrecoverable ==
    /\ cs[1].pc = "returned"
    /\ cs[1].cerr = "ErrUnexpected"
    /\ cancelCalls[RR] = 0
    /\ rootErr = "nil"
    /\ Done(RR)

\* the places of the reader from the send of the terminal condition on
Ending == {"sendCanceled", "sendErr", "sendLast", "closeData", "closeErr", "done"}

\* C15: every turn of the reader's loop looks at the scope first.  When the
\* scope is canceled at that moment the reader sends Canceled, closes both
\* channels and ends, and it scans neither in that turn nor later; it
\* scans only in a turn whose look found the scope not canceled.
C15_CheckBeforeScan ==
    /\ [][(rpc = "loop" /\ rpc' # "loop") =>
             IF Done(RR) THEN rpc' = "sendCanceled" /\ rerr' = "Canceled"
             ELSE rpc' = "scan"]_vars
    /\ [][(rpc = "sendCanceled" /\ rpc' # rpc) => rpc' = "closeData"]_vars
    /\ [][(rpc = "closeData" /\ rpc' # rpc) => rpc' = "closeErr" /\ dataClosed']_vars
    /\ [][(rpc = "closeErr" /\ rpc' # rpc) => rpc' = "done" /\ errClosed']_vars
    /\ [][(rpc \in Ending) =>
            (rpc' \in Ending /\ sc' = sc /\ scanned' = scanned)]_vars
    /\ [][(sc' # sc \/ scanned' # scanned) => rpc = "scan"]_vars
    /\ [][(rpc # "scan" /\ rpc' = "scan") => (rpc = "loop" /\ ~Done(RR))]_vars

\* the reader found the scope canceled after its first record, with more of
\* the body to scan, and has ended
C15_Witness ==
    /\ rpc = "done"
    /\ rerr = "Canceled"
    /\ Len(scanned) = 1
    /\ Len(NonEmpty(Units(body))) = 2
    /\ dataClosed /\ errClosed

\* C16: when a scan yields no further unit, the final partial unit of the
\* body, if any, has gone through the filter onto the data channel first;
\* then the reader sends the terminal condition (io.EOF when the scanner
\* has no error, the scanner's error otherwise), and only then it closes
\* both channels and ends.
C16_PartialBeforeTerminal ==
    /\ [](rpc = "sendErr" =>
            /\ published = NonEmpty(Units(body))
            /\ rerr = bodyErr
            /\ ~dataClosed /\ ~errClosed)
    /\ [][rpc = "sendErr" =>
            /\ rpc' \in {"sendErr", "closeData"}
            /\ published' = published]_vars
    /\ [][(~dataClosed /\ dataClosed') => rpc \in {"closeData"}]_vars
    /\ [](rpc = "sendLast" => FALSE)

\* the reader has sent io.EOF after a body whose last unit has no
\* delimiter, and that unit was the last record on the data channel
C16_Witness ==
    /\ rpc = "closeData"
    /\ rerr = "EOF"
    /\ ~AllTerminated(body)
    /\ Len(published) = 2
    /\ published[2] = <<98>>
    /\ ~dataClosed

\* the records the callers have received from the data channel
RECURSIVE ReceivedBy(_)
ReceivedBy(n) == IF n = 0 THEN 0 ELSE Len(Taken(n)) + ReceivedBy(n - 1)

Received == ReceivedBy(NumCallers)

\* C17: the reader is never more than one record ahead of the consumers:
\* the records scanned from the body less the records a consumer has
\* received are at most one, and the reader does not scan while a record
\* it has put on the data channel is not received.
C17_Backpressure ==
    /\ [](Len(published) - Received \in {0, 1})
    /\ []((Len(published) - Received = 1) <=> DataOffered)
    /\ [][DataOffered => (sc' = sc /\ scanned' = scanned)]_vars

\* the second record is on the data channel, the first is received
C17_Witness ==
    /\ Len(published) = 2
    /\ Received = 1
    /\ rpc = "sendData"

\* C18: when the handle's scope ends because the deadline of the client's
\* context expired during a streaming read, ReadStreaming returns an
\* error that is DeadlineExceeded, not Canceled.
C18_DeadlineClassified ==
    ( /\ cs[1].mode = "streaming"
      /\ cs[1].pc = "returned"
      /\ cs[1].failedAt = "none"
      /\ rootErr = "DeadlineExceeded"
      /\ cancelCalls[RR] = 0
      /\ cs[1].cerr \in {"Canceled", "DeadlineExceeded"} )
    => cs[1].result = Wrapped("DeadlineExceeded")

\* C19: once the scope is canceled and the caller has stopped consuming
\* (its ReadStreaming has returned), the reader closes both channels and
\* ends; it does not stay in a send for ever.
C19_ReaderExits ==
    (cs[1].pc = "returned" /\ Done(RR)) ~> (rpc = "done" /\ dataClosed /\ errClosed)

\* C20: one call of ReadStreaming on a fresh handle with a finite body and
\* a handler that always returns does return, when the reader and the
\* caller are scheduled fairly.
C20_ReadStreamingReturns ==
    (cs[1].mode = "streaming") ~> (cs[1].pc = "returned")

\* the call returned nil after two records and the final invocation
C20_Witness ==
    /\ cs[1].mode = "streaming"
    /\ cs[1].pc = "returned"
    /\ cs[1].result = FinalResult("EOF")
    /\ Len(cs[1].hlog) = 3
    /\ rootErr = "nil"
    /\ cancelCalls[RR] = 0

\* the handler invocations of caller c's call are records the reader put on
\* the data channel, followed by at most one final invocation
ProperInvocations(c) ==
    LET log == cs[c].hlog IN
    \A i \in 1..Len(log) :
       /\ ~log[i].closed
       /\ log[i].kind = "record" =>
             /\ log[i].byt # <<>>
             /\ \E k \in 1..Len(published) : published[k] = log[i].byt
       /\ log[i].kind = "final" => i = Len(log)

\* caller c's call took the errCh case of its select
TookErrCase(c) == cs[c].pc = "cancel" \/ PastTerminal(c)

\* C21: every handler invocation of ReadStreaming carries a non-empty
\* record that the reader put on the data channel, or is the one final
\* invocation with the drained remainder.  What is received from the data
\* channel once it is closed is never handed to the handler as a record,
\* and what is received from the error channel once it is closed is never
\* taken for a terminal condition, also in a call of ReadStreaming on a
\* handle whose stream has ended already.
C21_NoClosedReceives ==
    \A c \in Callers : cs[c].mode = "streaming" =>
       /\ ProperInvocations(c)
       /\ TookErrCase(c) => cs[c].cerr # "nil"

\* the part about the data channel alone
C21_DataPart ==
    \A c \in Callers : cs[c].mode = "streaming" => ProperInvocations(c)

\* the part about the error channel alone
C21_ErrPart ==
    \A c \in Callers :
       (cs[c].mode = "streaming" /\ TookErrCase(c)) => cs[c].cerr # "nil"

\* what holds of one call on a fresh handle
C21_FirstCall ==
    \A c \in Callers :
       (cs[c].mode = "streaming" /\ \A d \in Callers \ {c} : ~Called(d)) =>
          /\ ProperInvocations(c)
          /\ TookErrCase(c) => cs[c].cerr # "nil"

\* the handler of caller c is at work on a record it got from the reader
Handling(c) ==
    /\ cs[c].pc = "handler"
    /\ ~cs[c].hlog[Len(cs[c].hlog)].closed

\* the reader calls scanner.Scan()
ScanStarts == rpc = "scan" /\ rpc' # "scan"

\* C22: a record handed to the handler is stable while the handler is at
\* work on it: the reader does not start the next scan, which may
\* overwrite the scanner's buffer that the record is a slice of, before
\* the handler's invocation for that record has returned.
C22_RecordStable ==
    [][ScanStarts => \A c \in Callers : ~Handling(c)]_vars

====
